---- MODULE Spec2Model ----
(***************************************************************************)
(* LearnedHashMap<LinearModel<F>, F> of the lsph crate: a hash table of    *)
(* 2-D points whose hash function is a fitted linear regression.           *)
(*                                                                         *)
(* Floats are modelled by exact rationals <<num, den>> (den > 0), with     *)
(* <<0, 0>> for NaN and <<1, 0>>, <<-1, 0>> for the infinities.  On the    *)
(* small integer coordinates used here every value the code computes is    *)
(* exact in this arithmetic.  Distances are kept squared (sqrt is          *)
(* monotonic, so every comparison the code makes is preserved).            *)
(*                                                                         *)
(* A panic (index out of bounds, remainder by zero, unwrap of an Err)       *)
(* unwinds the call: the operation's result record has ok = FALSE and the   *)
(* action sets status = "panicked".  A usize overflow panics in a build    *)
(* with overflow checks and wraps in one without: the result record has    *)
(* wrapped = TRUE and holds the wrapping outcome, and the action takes     *)
(* either.                                                                 *)
(***************************************************************************)
EXTENDS Integers, Sequences, FiniteSets, TLC

\* ------------------------------------------------------------- bounds
MaxX == 2        \* x coordinates of inserted points: 0..MaxX
MaxY == 1        \* y coordinates of inserted points: 0..MaxY
MaxId == 0       \* ids given by the caller: 0..MaxId
MaxBatch == 3    \* longest batch handed to batch_insert
MaxStored == 3   \* inserts are taken while fewer points than this are stored
MaxBuckets == 8  \* inserts are taken while the table has at most this many buckets
MaxDrift == 0    \* mutations are taken while items is within this of the stored count

\* ------------------------------------------------------------- constants
INITIAL_NBUCKETS == 1
\* usize::MAX, scaled to the 31 bits TLC's integers offer; the item counter
\* reaches it only by wrapping below zero
USIZE_MAX == 2147483647

Xs == 0..MaxX
Ys == 0..MaxY
Ids == 0..MaxId
Coords == Xs \X Ys
\* queries reach one step outside the coordinate range of the stored points
QueryCoords == ((-1)..(MaxX + 1)) \X ((-1)..(MaxY + 1))
\* the arguments of the query steps: the low corner of the stored range and
\* the corner just outside it
QueryArgs == {<<0, 0>>, <<MaxX + 1, MaxY + 1>>}
\* the query and the box of the steps on maps of any history
Origin == <<0, 0>>
Corner == <<MaxX, MaxY>>

Point(i, a, b) == [id |-> i, x |-> a, y |-> b]
Points == {Point(i, a, b) : i \in Ids, a \in Xs, b \in Ys}
PointDefault == Point(0, 0, 0)

\* ------------------------------------------------------------- rationals
Abs(a) == IF a < 0 THEN -a ELSE a

RECURSIVE GCD(_, _)
GCD(a, b) == IF b = 0 THEN a ELSE GCD(b, a % b)

Sign(a) == IF a < 0 THEN -1 ELSE IF a = 0 THEN 0 ELSE 1

\* the float with value n/d; d = 0 gives NaN (n = 0) or an infinity
Rat(n, d) ==
    IF d = 0 THEN <<Sign(n), 0>>
    ELSE IF d = 1 THEN <<n, 1>>
    ELSE LET g == GCD(Abs(n), Abs(d))
             s == IF d < 0 THEN -1 ELSE 1
         IN  <<(s * n) \div g, (s * d) \div g>>

Int2F(n) == <<n, 1>>
NaN == <<0, 0>>
FMax == <<1, 0>>     \* F::max_value(): no distance computed here is above it
IsNan(a) == a = NaN
IsFinite(a) == a[2] # 0

RAdd(a, b) == IF IsFinite(a) /\ IsFinite(b) THEN Rat(a[1] * b[2] + b[1] * a[2], a[2] * b[2])
              ELSE IF IsNan(a) \/ IsNan(b) \/ (~IsFinite(a) /\ ~IsFinite(b) /\ a # b) THEN NaN
              ELSE IF IsFinite(a) THEN b ELSE a
RNeg(a) == <<-a[1], a[2]>>
RSub(a, b) == RAdd(a, RNeg(b))
RMul(a, b) == IF IsFinite(a) /\ IsFinite(b) THEN Rat(a[1] * b[1], a[2] * b[2])
              ELSE IF IsNan(a) \/ IsNan(b) \/ a[1] = 0 \/ b[1] = 0 THEN NaN
              ELSE <<Sign(a[1]) * Sign(b[1]), 0>>
RDiv(a, b) == IF IsFinite(a) /\ IsFinite(b) THEN Rat(a[1] * b[2], a[2] * b[1])
              ELSE IF IsNan(a) \/ IsNan(b) \/ ~IsFinite(a) THEN NaN
              ELSE <<0, 1>>
\* a < b as IEEE compares: false when either side is NaN
RLess(a, b) == /\ ~IsNan(a) /\ ~IsNan(b)
               /\ IF IsFinite(a) /\ IsFinite(b) THEN a[1] * b[2] < b[1] * a[2]
                  ELSE IF IsFinite(a) THEN b[1] > 0
                  ELSE IF IsFinite(b) THEN a[1] < 0
                  ELSE a[1] < b[1]
\* floor() followed by the saturating cast `as u64`
FloorU64(a) == IF IsNan(a) THEN 0
               ELSE IF ~IsFinite(a) THEN (IF a[1] > 0 THEN USIZE_MAX ELSE 0)
               ELSE IF a[1] < 0 THEN 0
               ELSE a[1] \div a[2]

\* ------------------------------------------------------------- sequences
RECURSIVE Flatten(_)
Flatten(ss) == IF ss = <<>> THEN <<>> ELSE Head(ss) \o Flatten(Tail(ss))

RECURSIVE SumSeq(_)
SumSeq(s) == IF s = <<>> THEN <<0, 1>> ELSE RAdd(Head(s), SumSeq(Tail(s)))

Range(s) == {s[i] : i \in DOMAIN s}

\* ------------------------------------------------------------- statistics
\* mean of a sequence of floats; zero for the empty sequence
mean(values) ==
    IF values = <<>> THEN <<0, 1>>
    ELSE RDiv(SumSeq(values), Int2F(Len(values)))

\* population variance; zero for the empty sequence
variance(values) ==
    IF values = <<>> THEN <<0, 1>>
    ELSE LET m == mean(values)
             sq == [i \in DOMAIN values |-> RMul(RSub(values[i], m), RSub(values[i], m))]
         IN  RDiv(SumSeq(sq), Int2F(Len(values)))

\* covariance: panics on sequences of different lengths; zero for empty ones
covariance(x_values, y_values) ==
    IF Len(x_values) # Len(y_values) THEN [ok |-> FALSE, v |-> NaN]
    ELSE IF Len(x_values) = 0 THEN [ok |-> TRUE, v |-> Int2F(0)]
    ELSE LET products(mean_x, mean_y) ==
                 [i \in DOMAIN x_values |->
                     RMul(RSub(x_values[i], mean_x), RSub(y_values[i], mean_y))]
         IN  [ok |-> TRUE,
              v |-> RDiv(SumSeq(products(mean(x_values), mean(y_values))),
                         Int2F(Len(x_values)))]

\* mean_squared_error: panics on sequences of different lengths; the sum of
\* the squared differences is divided by the length, whatever it is
mean_squared_error(actual, predicted) ==
    IF Len(actual) # Len(predicted) THEN [ok |-> FALSE, v |-> NaN]
    ELSE LET squares == [i \in DOMAIN actual |->
                            RMul(RSub(actual[i], predicted[i]),
                                 RSub(actual[i], predicted[i]))]
         IN  [ok |-> TRUE, v |-> RDiv(SumSeq(squares), Int2F(Len(actual)))]

\* the integer square root, rounded down
ISqrt(n) == CHOOSE k \in 0..n : k * k <= n /\ (k + 1) * (k + 1) > n

\* sqrt(): NaN for NaN and for negative values; exact on the squares of
\* rationals, else rounded down to a multiple of 1/den
RSqrt(a) ==
    IF IsNan(a) THEN NaN
    ELSE IF ~IsFinite(a) THEN (IF a[1] > 0 THEN a ELSE NaN)
    ELSE IF a[1] < 0 THEN NaN
    ELSE Rat(ISqrt(a[1] * a[2]), a[2])

root_mean_squared_error(actual, predicted) ==
    LET root(mse) == [ok |-> mse.ok, v |-> RSqrt(mse.v)]
    IN  root(mean_squared_error(actual, predicted))

\* ------------------------------------------------------------- linear model
\* the fold of slr: <<sum of squared x differences, sum of x*y differences>>
RECURSIVE slr_fold(_, _, _, _, _)
slr_fold(xs, ys, x_mean, y_mean, i) ==
    IF i = 0 THEN <<Int2F(0), Int2F(0)>>
    ELSE LET acc == slr_fold(xs, ys, x_mean, y_mean, i - 1)
             diff == RSub(xs[i], x_mean)
         IN  <<RAdd(acc[1], RMul(diff, diff)),
               RAdd(acc[2], RMul(diff, RSub(ys[i], y_mean)))>>

\* Ok((slope, intercept)) or Err(SteepSlope) when the slope is NaN
slr(xs, ys, x_mean, y_mean) ==
    LET line(slope) ==
            IF IsNan(slope) THEN [ok |-> FALSE, err |-> "SteepSlope"]
            ELSE [ok |-> TRUE, coefficient |-> slope,
                  intercept |-> RSub(y_mean, RMul(slope, x_mean))]
        ratio(sums) == line(RDiv(sums[2], sums[1]))
    IN  ratio(slr_fold(xs, ys, x_mean, y_mean, Len(xs)))

linear_regression(xs, ys) ==
    IF xs = <<>> \/ ys = <<>> THEN [ok |-> FALSE, err |-> "EmptyVal"]
    ELSE IF Len(xs) # Len(ys) THEN [ok |-> FALSE, err |-> "DiffLen"]
    ELSE slr(xs, ys, RDiv(SumSeq(xs), Int2F(Len(xs))), RDiv(SumSeq(ys), Int2F(Len(xs))))

\* LinearModel::fit unwraps the regression's result: an Err panics (ok = FALSE)
fit(model, xs, ys) ==
    LET unwrap(r) ==
            IF r.ok THEN [ok |-> TRUE,
                          model |-> [coefficient |-> r.coefficient,
                                     intercept |-> r.intercept]]
            ELSE [ok |-> FALSE, model |-> model]
    IN  unwrap(linear_regression(xs, ys))

predict(model, v) == RAdd(RMul(v, model.coefficient), model.intercept)

unpredict(model, v) == RDiv(RSub(v, model.intercept), model.coefficient)

LinearModelNew == [coefficient |-> Int2F(0), intercept |-> Int2F(0)]

\* ------------------------------------------------------------- geometry helpers
extract_x(ps) == [i \in DOMAIN ps |-> Int2F(ps[i].x)]
extract_y(ps) == [i \in DOMAIN ps |-> Int2F(ps[i].y)]
extract_id(ps) == [i \in DOMAIN ps |-> Int2F(ps[i].id)]
\* a faulty reset_id: the ranks start at one
reset_id_from_one(ps) == [i \in DOMAIN ps |-> [ps[i] EXCEPT !.id = i]]
reset_id(ps) == [i \in DOMAIN ps |-> [ps[i] EXCEPT !.id = i - 1]]

AxisValue(p, by_x) == IF by_x THEN p.x ELSE p.y

\* slice::sort_by is stable: an element goes after the elements not above it
RECURSIVE StableInsert(_, _, _)
StableInsert(s, p, by_x) ==
    IF s = <<>> THEN <<p>>
    ELSE IF AxisValue(p, by_x) < AxisValue(Head(s), by_x) THEN <<p>> \o s
    ELSE <<Head(s)>> \o StableInsert(Tail(s), p, by_x)

RECURSIVE StableSort(_, _, _)
StableSort(ps, by_x, i) ==
    IF i = 0 THEN <<>> ELSE StableInsert(StableSort(ps, by_x, i - 1), ps[i], by_x)

sort_by_x(ps) == StableSort(ps, TRUE, Len(ps))
sort_by_y(ps) == StableSort(ps, FALSE, Len(ps))

\* squared Euclidean distance between two coordinate pairs
distance2(a, b) == (a[1] - b[1]) * (a[1] - b[1]) + (a[2] - b[2]) * (a[2] - b[2])

\* ------------------------------------------------------------- trainer
\* a faulty with_points: equal variances go to the x axis
with_points_ties_to_x(ps0) ==
    LET px == extract_x(ps0)
        py == extract_y(ps0)
        trainer(by_x, ps) ==
            [axis |-> IF by_x THEN "X" ELSE "Y",
             train_x |-> IF by_x THEN px ELSE py,
             train_y |-> extract_id(ps),
             ps |-> ps]
        sorted(by_x) ==
            trainer(by_x, reset_id(IF by_x THEN sort_by_x(ps0) ELSE sort_by_y(ps0)))
    IN  sorted(~RLess(variance(px), variance(py)))

\* Trainer::with_points: the coordinates are extracted before the batch is
\* sorted, the ranks after it.  ps is the caller's batch as the call leaves it.
with_points(ps0) ==
    LET px == extract_x(ps0)
        py == extract_y(ps0)
        trainer(by_x, ps) ==
            [axis |-> IF by_x THEN "X" ELSE "Y",
             train_x |-> IF by_x THEN px ELSE py,
             train_y |-> extract_id(ps),
             ps |-> ps]
        sorted(by_x) ==
            trainer(by_x, reset_id(IF by_x THEN sort_by_x(ps0) ELSE sort_by_y(ps0)))
    IN  sorted(RLess(variance(py), variance(px)))

\* ------------------------------------------------------------- hasher
LearnedHasherNew == [state |-> 0, model |-> LinearModelNew, sort_by_x |-> TRUE]

\* LearnedHasher::write followed by finish: the hash of one coordinate
make_hash(hasher, v) == FloorU64(predict(hasher.model, Int2F(v)))

\* the hash of a coordinate pair <<x, y>> on the active axis
make_hash_point(hasher, p) ==
    IF hasher.sort_by_x THEN make_hash(hasher, p[1]) ELSE make_hash(hasher, p[2])

\* the coordinate the model maps to bucket index hash
unhash(hasher, hash) == unpredict(hasher.model, Int2F(hash))

\* ------------------------------------------------------------- state
VARIABLES
    map,              \* the LearnedHashMap: hasher, table (buckets, capacity), items
    status            \* "ok", or "panicked" once a call has unwound

vars == <<map, status>>

None == <<>>
Some(v) == <<v>>

\* usize arithmetic: the wrapping value, and whether it wrapped
UsizeAdd(a, b) ==
    IF a <= USIZE_MAX - b THEN [wrapped |-> FALSE, v |-> a + b]
    ELSE [wrapped |-> TRUE, v |-> a - (USIZE_MAX - b) - 1]
UsizeSub(a, b) ==
    IF a >= b THEN [wrapped |-> FALSE, v |-> a - b]
    ELSE [wrapped |-> TRUE, v |-> USIZE_MAX - (b - a) + 1]

\* ------------------------------------------------------------- table
\* Table::new / Table::with_capacity: no buckets, the given Vec capacity
TableWithCapacity(c) == [buckets |-> <<>>, capacity |-> c]

\* a faulty Table::bucket: the index after the one the hash names
bucket_off_by_one(table, hash) ==
    IF Len(table.buckets) = 0 THEN [ok |-> FALSE, v |-> 0]
    ELSE [ok |-> TRUE, v |-> (hash + 1) % Len(table.buckets)]

\* Table::bucket: the bucket index of a hash; remainder by zero panics
bucket(table, hash) ==
    IF Len(table.buckets) = 0 THEN [ok |-> FALSE, v |-> 0]
    ELSE [ok |-> TRUE, v |-> hash % Len(table.buckets)]

\* swap_remove of 1-based position i: the last element takes its place
swap_remove(b, i) ==
    IF i = Len(b) THEN SubSeq(b, 1, Len(b) - 1)
    ELSE [SubSeq(b, 1, Len(b) - 1) EXCEPT ![i] = b[Len(b)]]

\* Table::remove_entry: the first entry of the bucket equal to entry (id, x, y)
remove_entry(table, hash, entry) ==
    LET bi == bucket(table, hash)
    IN  IF ~bi.ok THEN [ok |-> FALSE, table |-> table, ret |-> None]
        ELSE LET b == table.buckets[bi.v + 1]
                 hits == {i \in DOMAIN b : b[i] = entry}
             IN  IF hits = {} THEN [ok |-> TRUE, table |-> table, ret |-> None]
                 ELSE LET i == CHOOSE j \in hits : \A k \in hits : j <= k
                      IN  [ok |-> TRUE,
                           table |-> [table EXCEPT !.buckets[bi.v + 1] = swap_remove(b, i)],
                           ret |-> Some(b[i])]

\* ------------------------------------------------------------- map
LearnedHashMapNew ==
    [hasher |-> LearnedHasherNew, table |-> TableWithCapacity(0), items |-> 0]

StoredSeq(m) == Flatten(m.table.buckets)
Stored(m) == Range(StoredSeq(m))
HashOf(m, p) == make_hash_point(m.hasher, <<p.x, p.y>>)

\* a faulty resize_with_capacity: the buckets are carried over as they are,
\* without hashing their points again
resize_with_capacity_no_rehash(m, target_size) ==
    LET old == m.table.buckets
        new_buckets == [h \in 1..target_size |-> IF h <= Len(old) THEN old[h] ELSE <<>>]
    IN  IF \E h \in DOMAIN old : h > target_size /\ old[h] # <<>>
        THEN [ok |-> FALSE, m |-> m]
        ELSE [ok |-> TRUE,
              m |-> [m EXCEPT !.table = [buckets |-> new_buckets, capacity |-> target_size]]]

\* resize_with_capacity: a new table of target_size buckets; every stored point
\* is pushed to new_table[hash], indexed by the hash itself
resize_with_capacity(m, target_size) ==
    LET flat == StoredSeq(m)
        new_buckets == [h \in 1..target_size |->
                           SelectSeq(flat, LAMBDA p : HashOf(m, p) = h - 1)]
    IN  IF \E i \in DOMAIN flat : HashOf(m, flat[i]) >= target_size
        THEN [ok |-> FALSE, m |-> m]
        ELSE [ok |-> TRUE,
              m |-> [m EXCEPT !.table = [buckets |-> new_buckets, capacity |-> target_size],
                              !.hasher.state = IF flat = <<>> THEN @
                                               ELSE HashOf(m, flat[Len(flat)])]]

\* a faulty resize: one bucket more instead of twice the buckets
resize_by_one(m) ==
    resize_with_capacity(m, IF Len(m.table.buckets) = 0 THEN INITIAL_NBUCKETS
                            ELSE Len(m.table.buckets) + 1)

\* resize: INITIAL_NBUCKETS for a table without buckets, else twice the buckets
resize(m) ==
    resize_with_capacity(m, IF Len(m.table.buckets) = 0 THEN INITIAL_NBUCKETS
                            ELSE 2 * Len(m.table.buckets))

\* the test at the head of insert and insert_inner
NeedsResize(m) ==
    Len(m.table.buckets) = 0 \/ m.items > (3 * Len(m.table.buckets)) \div 4

ResizeIfNeeded(m) == IF NeedsResize(m) THEN resize(m) ELSE [ok |-> TRUE, m |-> m]

\* insert_with_axis: replace the entry equal to p (id, x, y), or insert p after
\* the entries whose axis coordinate is below p's and count it
insert_with_axis(m, p_value, p, hash) ==
    LET bi == bucket(m.table, hash)
    IN  IF ~bi.ok THEN [ok |-> FALSE, wrapped |-> FALSE, m |-> m, ret |-> None]
        ELSE LET b == m.table.buckets[bi.v + 1]
                 hits == {i \in DOMAIN b : b[i] = p}
                 by_x == m.hasher.sort_by_x
                 insert_index == Cardinality({i \in DOMAIN b :
                                     IF by_x THEN b[i].x < p.x ELSE b[i].y < p_value})
                 n == UsizeAdd(m.items, 1)
             IN  IF hits # {}
                 THEN LET i == CHOOSE j \in hits : \A k \in hits : j <= k
                      IN  [ok |-> TRUE, wrapped |-> FALSE,
                           m |-> [m EXCEPT !.table.buckets[bi.v + 1][i] = p],
                           ret |-> Some(b[i])]
                 ELSE [ok |-> TRUE, wrapped |-> n.wrapped,
                       m |-> [m EXCEPT !.table.buckets[bi.v + 1] =
                                           SubSeq(b, 1, insert_index) \o <<p>>
                                               \o SubSeq(b, insert_index + 1, Len(b)),
                                       !.items = n.v],
                       ret |-> None]

\* insert_inner: the insert of batch_insert, without the hash >= capacity branch
insert_inner(m, p) ==
    LET hashed(m0, hash) ==
            insert_with_axis([m0 EXCEPT !.hasher.state = hash],
                             AxisValue(p, m0.hasher.sort_by_x), p, hash)
        resized(r) ==
            IF ~r.ok THEN [ok |-> FALSE, wrapped |-> FALSE, m |-> m, ret |-> None]
            ELSE hashed(r.m, HashOf(r.m, p))
    IN  resized(ResizeIfNeeded(m))

RECURSIVE insert_all(_, _, _)
insert_all(m, ps, i) ==
    IF i > Len(ps) THEN [ok |-> TRUE, wrapped |-> FALSE, m |-> m]
    ELSE LET next(r) ==
                 IF ~r.ok THEN [ok |-> FALSE, wrapped |-> FALSE, m |-> m]
                 ELSE [insert_all(r.m, ps, i + 1) EXCEPT !.wrapped = @ \/ r.wrapped]
         IN  next(insert_inner(m, ps[i]))

\* a faulty batch_insert_inner: the first point of the batch is left out
batch_insert_inner_skip_first(m, ps) ==
    LET resized(r) ==
            IF ~r.ok THEN [ok |-> FALSE, wrapped |-> FALSE, m |-> m]
            ELSE insert_all(r.m, ps, 2)
    IN  resized(resize_with_capacity(m, Len(ps)))

\* batch_insert_inner: a table of ps.len() buckets, then every point in turn
batch_insert_inner(m, ps) ==
    LET resized(r) ==
            IF ~r.ok THEN [ok |-> FALSE, wrapped |-> FALSE, m |-> m]
            ELSE insert_all(r.m, ps, 1)
    IN  resized(resize_with_capacity(m, Len(ps)))

\* batch_insert: train on the batch, set the axis, fit, insert every point.
\* Both fits are unwrapped, so a fit error panics; the call returns Ok(()) or
\* does not return.
batch_insert(m, ps0) ==
    LET panic(trainer) ==
            [ok |-> FALSE, wrapped |-> FALSE, m |-> m, ret |-> "panic", ps |-> trainer.ps]
        inserted(trainer, r) ==
            IF ~r.ok THEN panic(trainer)
            ELSE [ok |-> TRUE, wrapped |-> r.wrapped, m |-> r.m, ret |-> "Ok",
                  ps |-> trainer.ps]
        fitted(trainer, f) ==
            IF ~f.ok THEN panic(trainer)
            ELSE inserted(trainer,
                          batch_insert_inner(
                              [m EXCEPT !.hasher.model = f.model,
                                        !.hasher.sort_by_x = (trainer.axis = "X")],
                              trainer.ps))
        trained(trainer) ==
            fitted(trainer, fit(m.hasher.model, trainer.train_x, trainer.train_y))
    IN  trained(with_points(ps0))

\* a faulty rehash: the buckets are not drained before the batch is inserted
rehash_undrained(m) ==
    batch_insert(m, StoredSeq(m))

\* rehash: drain every bucket into a batch and batch_insert it; the item
\* counter is left as it is
rehash(m) ==
    LET old_data == StoredSeq(m)
        drained == [m EXCEPT !.table.buckets = [i \in DOMAIN @ |-> <<>>]]
    IN  batch_insert(drained, old_data)

\* a faulty insert: every insert is followed by a rehash, whatever the hash
insert_rehashing(m, p) ==
    LET panic == [ok |-> FALSE, wrapped |-> FALSE, m |-> m, ret |-> None]
        rehashed(i, h) ==
            IF ~h.ok THEN panic
            ELSE [ok |-> TRUE, wrapped |-> i.wrapped \/ h.wrapped, m |-> h.m, ret |-> None]
        placed(i) == IF ~i.ok THEN panic ELSE rehashed(i, rehash(i.m))
        written(m0, hash) ==
            placed(insert_with_axis([m0 EXCEPT !.hasher.state = hash],
                                    AxisValue(p, m0.hasher.sort_by_x), p, hash))
        resized(r) == IF ~r.ok THEN panic ELSE written(r.m, HashOf(r.m, p))
    IN  resized(ResizeIfNeeded(m))

\* insert: resize when needed; a hash at or beyond the capacity grows the
\* table to twice the hash, inserts and then rehashes everything
insert(m, p) ==
    LET panic == [ok |-> FALSE, wrapped |-> FALSE, m |-> m, ret |-> None]
        rehashed(i, h) ==
            IF ~h.ok THEN panic
            ELSE [ok |-> TRUE, wrapped |-> i.wrapped \/ h.wrapped, m |-> h.m, ret |-> None]
        placed(i) == IF ~i.ok THEN panic ELSE rehashed(i, rehash(i.m))
        grown(g, p_value, hash) ==
            IF ~g.ok THEN panic ELSE placed(insert_with_axis(g.m, p_value, p, hash))
        hashed(m1, p_value, hash) ==
            IF hash >= m1.table.capacity
            THEN grown(resize_with_capacity(m1, hash * 2), p_value, hash)
            ELSE insert_with_axis(m1, p_value, p, hash)
        written(m0, hash) ==
            hashed([m0 EXCEPT !.hasher.state = hash],
                   AxisValue(p, m0.hasher.sort_by_x), hash)
        resized(r) == IF ~r.ok THEN panic ELSE written(r.m, HashOf(r.m, p))
    IN  resized(ResizeIfNeeded(m))

\* find_by_hash: the first point of bucket hash with the coordinates p;
\* indexing past the last bucket panics
find_by_hash(m, hash, p) ==
    IF hash >= Len(m.table.buckets) THEN [ok |-> FALSE, ret |-> None]
    ELSE LET b == m.table.buckets[hash + 1]
             hits == {i \in DOMAIN b : b[i].x = p[1] /\ b[i].y = p[2]}
         IN  [ok |-> TRUE,
              ret |-> IF hits = {} THEN None
                      ELSE Some(b[CHOOSE j \in hits : \A k \in hits : j <= k])]

\* get: absent when the hash is above the capacity, else find_by_hash
get(m, p) ==
    LET found(m1, f) == [ok |-> f.ok, wrapped |-> FALSE, m |-> m1, ret |-> f.ret]
        written(m1, hash) ==
            IF hash > m.table.capacity
            THEN [ok |-> TRUE, wrapped |-> FALSE, m |-> m1, ret |-> None]
            ELSE found(m1, find_by_hash(m1, hash, p))
        hashed(hash) == written([m EXCEPT !.hasher.state = hash], hash)
    IN  hashed(make_hash_point(m.hasher, p))

\* remove: the item counter is decremented before the entry is looked up
remove(m, p) ==
    LET n == UsizeSub(m.items, 1)
        removed(hash, r) ==
            IF ~r.ok THEN [ok |-> FALSE, wrapped |-> n.wrapped, m |-> m, ret |-> None]
            ELSE [ok |-> TRUE, wrapped |-> n.wrapped,
                  m |-> [m EXCEPT !.hasher.state = hash, !.items = n.v,
                                  !.table = r.table],
                  ret |-> r.ret]
        hashed(hash) == removed(hash, remove_entry(m.table, hash, p))
    IN  hashed(HashOf(m, p))

\* a faulty contains_points: the point found is taken out of the table
contains_points_removing(m, p) ==
    LET found(r) == [r EXCEPT !.ret = (r.ret # None)]
    IN  found(remove(m, Point(0, p[1], p[2])))

\* contains_points: whether get finds a point at the coordinates p
contains_points(m, p) ==
    LET found(r) == [r EXCEPT !.ret = (r.ret # None)]
    IN  found(get(m, p))

\* ------------------------------------------------------------- queries
\* a faulty box test: the y coordinate is not compared
InBox_x_only(p, bottom_left, top_right) ==
    p.x >= bottom_left[1] /\ p.x <= top_right[1]

\* the box test of range_search
InBox(p, bottom_left, top_right) ==
    /\ p.x >= bottom_left[1] /\ p.x <= top_right[1]
    /\ p.y >= bottom_left[2] /\ p.y <= top_right[2]

\* a faulty range_search: the buckets are scanned from right_hash down to
\* left_hash
range_search_backwards(m, bottom_left, top_right) ==
    LET cap == m.table.capacity
        clamp == UsizeSub(cap, 1)
        found(result) == IF result = <<>> THEN None ELSE Some(result)
        scan(left_hash, right_hash, m1, wrapped) ==
            IF left_hash > cap \/ left_hash > right_hash
            THEN [ok |-> TRUE, wrapped |-> wrapped, m |-> m1, ret |-> None]
            ELSE IF right_hash >= Len(m.table.buckets)
            THEN [ok |-> FALSE, wrapped |-> wrapped, m |-> m, ret |-> None]
            ELSE [ok |-> TRUE, wrapped |-> wrapped, m |-> m1,
                  ret |-> found(SelectSeq(
                              Flatten([k \in 1..(right_hash - left_hash + 1) |->
                                          m.table.buckets[right_hash + 2 - k]]),
                              LAMBDA p : InBox(p, bottom_left, top_right)))]
        hashed(rh0, left_hash) ==
            scan(left_hash, IF rh0 > cap THEN clamp.v ELSE rh0,
                 [m EXCEPT !.hasher.state = left_hash], rh0 > cap /\ clamp.wrapped)
    IN  hashed(make_hash_point(m.hasher, top_right),
               make_hash_point(m.hasher, bottom_left))

\* range_search: the points of buckets left_hash..=right_hash inside the box,
\* None when there are none or the hashes are out of order
range_search(m, bottom_left, top_right) ==
    LET cap == m.table.capacity
        clamp == UsizeSub(cap, 1)
        found(result) == IF result = <<>> THEN None ELSE Some(result)
        scan(left_hash, right_hash, m1, wrapped) ==
            IF left_hash > cap \/ left_hash > right_hash
            THEN [ok |-> TRUE, wrapped |-> wrapped, m |-> m1, ret |-> None]
            ELSE IF right_hash >= Len(m.table.buckets)
            THEN [ok |-> FALSE, wrapped |-> wrapped, m |-> m, ret |-> None]
            ELSE [ok |-> TRUE, wrapped |-> wrapped, m |-> m1,
                  ret |-> found(SelectSeq(
                              Flatten([k \in 1..(right_hash - left_hash + 1) |->
                                          m.table.buckets[left_hash + k]]),
                              LAMBDA p : InBox(p, bottom_left, top_right)))]
        hashed(rh0, left_hash) ==
            scan(left_hash, IF rh0 > cap THEN clamp.v ELSE rh0,
                 [m EXCEPT !.hasher.state = left_hash], rh0 > cap /\ clamp.wrapped)
    IN  hashed(make_hash_point(m.hasher, top_right),
               make_hash_point(m.hasher, bottom_left))

\* a faulty radius_range: the points of the box farther from the query point
\* than the radius are dropped
radius_range_in_circle(m, query_point, radius) ==
    LET near(r) ==
            IF ~r.ok \/ r.ret = None THEN r
            ELSE [r EXCEPT !.ret = Some(SelectSeq(r.ret[1],
                     LAMBDA p : distance2(query_point, <<p.x, p.y>>) <= radius * radius))]
    IN  near(range_search(m, <<query_point[1] - radius, query_point[2] - radius>>,
                             <<query_point[1] + radius, query_point[2] + radius>>))

\* radius_range: range_search on the box of half-width radius around the point
radius_range(m, query_point, radius) ==
    range_search(m, <<query_point[1] - radius, query_point[2] - radius>>,
                    <<query_point[1] + radius, query_point[2] + radius>>)

\* index of the first heap entry with the least distance; the heap is kept
\* as the sequence of its entries
HeapMin(heap) ==
    CHOOSE i \in DOMAIN heap :
        /\ \A k \in DOMAIN heap : ~RLess(heap[k].distance, heap[i].distance)
        /\ \A k \in DOMAIN heap : k < i => RLess(heap[i].distance, heap[k].distance)

\* local_min_heap: push the bucket's points with their distances, pop the
\* least entry, and take it when it is strictly nearer than min_d.  The heap
\* is shared by all calls of one search.  nearest is the set of points the
\* pop can yield: BinaryHeap leaves the order of equal distances open.
\* visited lists the bucket indexes the search has indexed so far.
local_min_heap(m, st, local_hash, query_point) ==
    IF ~st.ok THEN st
    ELSE IF local_hash >= Len(m.table.buckets)
    THEN [st EXCEPT !.ok = FALSE, !.visited = Append(@, local_hash)]
    ELSE LET b == m.table.buckets[local_hash + 1]
             popped(heap, i, rest) ==
                 IF RLess(heap[i].distance, st.min_d)
                 THEN [ok |-> TRUE, heap |-> rest, min_d |-> heap[i].distance,
                       nearest |-> {heap[k].point : k \in
                                       {j \in DOMAIN heap :
                                           heap[j].distance = heap[i].distance}},
                       visited |-> Append(st.visited, local_hash)]
                 ELSE [st EXCEPT !.heap = rest, !.visited = Append(@, local_hash)]
             pop(heap, i) ==
                 popped(heap, i, SubSeq(heap, 1, i - 1) \o SubSeq(heap, i + 1, Len(heap)))
             pushed(heap) == IF heap = <<>> THEN [st EXCEPT !.visited = Append(@, local_hash)]
                             ELSE pop(heap, HeapMin(heap))
         IN  pushed(st.heap \o [i \in DOMAIN b |->
                        [distance |-> Int2F(distance2(query_point, <<b[i].x, b[i].y>>)),
                         point |-> b[i]]])

\* horizontal_distance (squared): from the query's axis coordinate to unhash(hash)
horizontal_distance(m, query_point, hash) ==
    LET q == Int2F(IF m.hasher.sort_by_x THEN query_point[1] ELSE query_point[2])
        square(d) == RMul(d, d)
    IN  square(RSub(q, unhash(m.hasher, hash)))

\* the loop over the buckets left of the home bucket
RECURSIVE expand_left(_, _, _, _)
expand_left(m, st, left_hash, query_point) ==
    IF ~st.ok THEN st
    ELSE IF ~RLess(horizontal_distance(m, query_point, left_hash), st.min_d) THEN st
    ELSE LET next(st1) ==
                 IF ~st1.ok \/ left_hash = 0 THEN st1
                 ELSE expand_left(m, st1, left_hash - 1, query_point)
         IN  next(local_min_heap(m, st, left_hash, query_point))

\* the loop over the buckets right of the home bucket
RECURSIVE expand_right(_, _, _, _)
expand_right(m, st, right_hash, query_point) ==
    IF ~st.ok THEN st
    ELSE IF ~RLess(horizontal_distance(m, query_point, right_hash), st.min_d) THEN st
    ELSE LET next(st1) ==
                 IF ~st1.ok \/ right_hash + 1 = m.table.capacity THEN st1
                 ELSE expand_right(m, st1, right_hash + 1, query_point)
         IN  next(local_min_heap(m, st, right_hash, query_point))

\* nearest_neighbor: the home bucket, then leftwards, then rightwards; always
\* Some(nearest_neighbor), which starts as Point::default().  ret is the set
\* of points the call can return.
nearest_neighbor(m, query_point) ==
    LET max_capacity == m.table.capacity
        clamp == UsizeSub(max_capacity, 1)
        st0 == [ok |-> TRUE, heap |-> <<>>, min_d |-> FMax, nearest |-> {PointDefault},
                visited |-> <<>>]
        searched(h0, wrapped, st3) ==
            IF ~st3.ok THEN [ok |-> FALSE, wrapped |-> wrapped, m |-> m, ret |-> {},
                             visited |-> st3.visited]
            ELSE [ok |-> TRUE, wrapped |-> wrapped,
                  m |-> [m EXCEPT !.hasher.state = h0], ret |-> st3.nearest,
                  visited |-> st3.visited]
        search(h0, hash) ==
            searched(h0, h0 > max_capacity /\ clamp.wrapped,
                     expand_right(m,
                         expand_left(m, local_min_heap(m, st0, hash, query_point),
                                     IF hash = 0 THEN 0 ELSE hash - 1, query_point),
                         hash + 1, query_point))
        hashed(h0) == search(h0, IF h0 > max_capacity THEN clamp.v ELSE h0)
    IN  hashed(make_hash_point(m.hasher, query_point))

\* ------------------------------------------------------------- iterators
\* into_iter of a map reference: an Iter at bucket 0, position 0
Iter(m) == [bucket |-> 0, at |-> 0]

\* a faulty Iter::next: the position is kept when the iterator moves on to
\* the next bucket
RECURSIVE Iter_next_keeps_at(_, _)
Iter_next_keeps_at(m, it) ==
    IF it.bucket >= Len(m.table.buckets) THEN [item |-> None, it |-> it]
    ELSE IF it.at < Len(m.table.buckets[it.bucket + 1])
    THEN [item |-> Some(m.table.buckets[it.bucket + 1][it.at + 1]),
          it |-> [it EXCEPT !.at = @ + 1]]
    ELSE Iter_next_keeps_at(m, [it EXCEPT !.bucket = @ + 1])

\* Iter::next: the point at the position, which moves along; past the end of
\* a bucket the next bucket from position 0; None past the last bucket
RECURSIVE Iter_next(_, _)
Iter_next(m, it) ==
    IF it.bucket >= Len(m.table.buckets) THEN [item |-> None, it |-> it]
    ELSE IF it.at < Len(m.table.buckets[it.bucket + 1])
    THEN [item |-> Some(m.table.buckets[it.bucket + 1][it.at + 1]),
          it |-> [it EXCEPT !.at = @ + 1]]
    ELSE Iter_next(m, [bucket |-> it.bucket + 1, at |-> 0])

\* into_iter of a map: an IntoIter that owns the map, at bucket 0
IntoIter(m) == [map |-> m, bucket |-> 0]

\* IntoIter::next: pop the last point of the bucket; the next bucket when it
\* is empty; None past the last bucket
RECURSIVE IntoIter_next(_)
IntoIter_next(it) ==
    IF it.bucket >= Len(it.map.table.buckets) THEN [item |-> None, it |-> it]
    ELSE LET b == it.map.table.buckets[it.bucket + 1]
         IN  IF b # <<>>
             THEN [item |-> Some(b[Len(b)]),
                   it |-> [it EXCEPT !.map.table.buckets[it.bucket + 1] =
                                         SubSeq(b, 1, Len(b) - 1)]]
             ELSE IntoIter_next([it EXCEPT !.bucket = @ + 1])

\* ------------------------------------------------------------- inputs
\* batches: the ids the caller gives are overwritten by the trainer
BatchPoints == {Point(MaxId, a, b) : a \in Xs, b \in Ys}
RECURSIVE SeqsUpTo(_, _)
SeqsUpTo(S, n) ==
    IF n = 0 THEN {<<>>}
    ELSE LET shorter == SeqsUpTo(S, n - 1)
         IN  shorter \cup {Append(s, e) : s \in {t \in shorter : Len(t) = n - 1}, e \in S}
\* every batch of two or more points, the empty batch, and one batch of a
\* single point (a single point leaves the fit no slope, wherever it lies)
Batches == {ps \in SeqsUpTo(BatchPoints, MaxBatch) :
               Len(ps) = 1 => ps[1] = Point(MaxId, 0, 0)}
\* the batches of at most n points
BatchesUpTo == [n \in 0..MaxStored |-> {ps \in Batches : Len(ps) <= n}]

CoordsOf(ps) == {<<ps[i].x, ps[i].y>> : i \in DOMAIN ps}
NStored == Len(StoredSeq(map))
\* items minus the number of stored points, a wrapped counter read as negative
Drift == IF map.items > USIZE_MAX \div 2 THEN (map.items - USIZE_MAX) - 1 - NStored
         ELSE map.items - NStored
\* the guard of the mutations: it keeps the table and the counter finite
\* (a counter that has wrapped below zero is not taken further)
Bounded == /\ NStored <= MaxStored
           /\ Len(map.table.buckets) <= MaxBuckets
           /\ map.items <= USIZE_MAX \div 2
           /\ Abs(Drift) <= MaxDrift

\* ------------------------------------------------------------- behaviour
\* the call returns in every build
Returns(r) == r.ok /\ ~r.wrapped
\* the call panics in every build
Panics(r) == ~r.ok

\* LearnedHashMap::new() (capacity 0) or with_capacity(MaxBatch)
Init ==
    /\ \E c \in {0, MaxBatch} :
           map = [hasher |-> LearnedHasherNew, table |-> TableWithCapacity(c), items |-> 0]
    /\ status = "ok"

\* a panic unwinds through the owner of the map, which drops it: no map is
\* left to observe, and the model keeps none
Panic ==
    /\ status' = "panicked"
    /\ map' = LearnedHashMapNew

\* the outcomes of a call with result r: it returns, or it panics (always, or
\* on an overflow in a build that checks for it)
Outcome(r) ==
    \/ r.ok /\ map' = r.m /\ status' = status
    \/ (~r.ok \/ r.wrapped) /\ Panic

Insert(p) ==
    /\ status = "ok"
    /\ Bounded /\ NStored < MaxStored
    /\ Outcome(insert(map, p))

BatchInsert(ps) ==
    /\ status = "ok"
    /\ Bounded /\ NStored + Len(ps) <= MaxStored
    /\ Outcome(batch_insert(map, ps))

Remove(p) ==
    /\ status = "ok"
    /\ Bounded
    /\ Outcome(remove(map, p))

Get(q) == status = "ok" /\ Outcome(get(map, q))

RangeSearch(bl, tr) == status = "ok" /\ Outcome(range_search(map, bl, tr))

RadiusRange(q, radius) == status = "ok" /\ Outcome(radius_range(map, q, radius))

NearestNeighbor(q) == status = "ok" /\ Outcome(nearest_neighbor(map, q))

Next ==
    \/ \E p \in Points : Insert(p)
    \/ \E ps \in BatchesUpTo[MaxStored - NStored] : BatchInsert(ps)
    \/ \E p \in {PointDefault} \cup Stored(map) : Remove(p)
    \/ Get(Origin)
    \/ RangeSearch(Origin, Corner)
    \/ RadiusRange(Origin, MaxX)
    \/ NearestNeighbor(Origin)

Spec == Init /\ [][Next]_vars

\* a map as LearnedHashMap::new() or with_capacity() made it
NewMap ==
    map.hasher = LearnedHasherNew /\ map.table.buckets = <<>> /\ map.items = 0

\* the maps filled by one batch_insert into a new map, and the queries on them
NextBatch ==
    \/ NewMap /\ \E ps \in Batches : BatchInsert(ps)
    \/ \E q \in QueryArgs : Get(q)
    \/ \E bl \in QueryArgs, tr \in QueryArgs : RangeSearch(bl, tr)
    \/ \E q \in QueryArgs : RadiusRange(q, MaxX)
    \/ \E q \in QueryArgs : NearestNeighbor(q)

SpecBatch == Init /\ [][NextBatch]_vars

\* ------------------------------------------------------------- properties
\* the maps that hold the points of at least one batch_insert or insert
Filled == status = "ok" /\ ~NewMap

\* get(p.x, p.y) returns a stored point with the coordinates of p
GetFinds(m, p) ==
    LET found(r) == /\ Returns(r) /\ r.ret # None
                    /\ r.ret[1] \in Stored(m)
                    /\ r.ret[1].x = p.x /\ r.ret[1].y = p.y
    IN  found(get(m, <<p.x, p.y>>))

\* when the call with result r returned, get finds the points that were
\* stored in m before it and the points it added
Kept(m, added, r) ==
    Returns(r) => \A p \in Stored(m) \cup added : GetFinds(r.m, p)

C2_ItemsIsStoredCount == status = "ok" => map.items = NStored

\* the least squared distance from q to a stored point
MinDistance2(m, q) ==
    CHOOSE d \in {distance2(q, <<p.x, p.y>>) : p \in Stored(m)} :
        \A p \in Stored(m) : d <= distance2(q, <<p.x, p.y>>)

\* nearest_neighbor(q) returns, and whichever point it returns is a stored
\* point at the least distance from q
NearestIsExact(m, q) ==
    LET exact(r) ==
            /\ Returns(r)
            /\ \A p \in r.ret :
                  p \in Stored(m) /\ distance2(q, <<p.x, p.y>>) = MinDistance2(m, q)
    IN  exact(nearest_neighbor(m, q))

\* C3: on a map filled by one batch_insert into a new map, nearest_neighbor(q)
\* returns a stored point at the minimum Euclidean distance from q, for every
\* query q inside or one step outside the coordinate range.
C3_NearestNeighborExact ==
    Filled => \A q \in QueryCoords : NearestIsExact(map, q)

\* the boxes with corners inside or one step outside the coordinate range
AllBoxes ==
    {b \in QueryCoords \X QueryCoords : b[1][1] <= b[2][1] /\ b[1][2] <= b[2][2]}

\* range_search(bl, tr) returns, and its result holds every stored point of
\* the box
RangeIsComplete(m, bl, tr) ==
    LET complete(r) ==
            /\ Returns(r)
            /\ \A p \in Stored(m) :
                  (bl[1] <= p.x /\ p.x <= tr[1] /\ bl[2] <= p.y /\ p.y <= tr[2])
                      => r.ret # None /\ p \in Range(r.ret[1])
    IN  complete(range_search(m, bl, tr))

\* C4: on a map filled by batch_insert, every stored point inside the box
\* [bottom_left, top_right] is in the result of range_search (no false
\* negatives).
C4_RangeSearchComplete ==
    Filled => \A b \in AllBoxes : RangeIsComplete(map, b[1], b[2])

\* the corners of the boxes searched on maps of any history
BoxCorners == {<<-1, -1>>, <<0, 0>>, <<1, 1>>, <<MaxX, 0>>, <<MaxX + 1, MaxY + 1>>}

\* every point of a result of range_search(bl, tr) is stored and lies in the box
RangeIsSound(m, bl, tr) ==
    LET sound(r) ==
            (r.ok /\ r.ret # None) =>
                \A i \in DOMAIN r.ret[1] :
                    LET p == r.ret[1][i]
                    IN  /\ p \in Stored(m)
                        /\ bl[1] <= p.x /\ p.x <= tr[1]
                        /\ bl[2] <= p.y /\ p.y <= tr[2]
    IN  sound(range_search(m, bl, tr))

\* C5: in every reachable map, every point range_search(bottom_left,
\* top_right) returns is a stored point p with bottom_left.x <= p.x <=
\* top_right.x and bottom_left.y <= p.y <= top_right.y.
C5_RangeSearchSound ==
    status = "ok" => \A bl \in BoxCorners, tr \in BoxCorners : RangeIsSound(map, bl, tr)

\* C5's case: a search that scans a bucket holding a point inside the box and
\* a point outside it, and returns only the first
C5_Witness ==
    /\ status = "ok"
    /\ \E bl \in BoxCorners, tr \in BoxCorners :
          /\ range_search(map, bl, tr).ok
          /\ range_search(map, bl, tr).ret # None
          /\ RangeIsSound(map, bl, tr)
          /\ \E i \in DOMAIN map.table.buckets :
                /\ \E p \in Range(map.table.buckets[i]) :
                      p \in Range(range_search(map, bl, tr).ret[1])
                /\ \E p \in Range(map.table.buckets[i]) :
                      p \notin Range(range_search(map, bl, tr).ret[1])

\* insert(p) replaces the stored point q, returns it and leaves items() alone
Replaces(m, q, p) ==
    LET replaced(r) ==
            /\ Returns(r)
            /\ r.ret = Some(q)
            /\ r.m.items = m.items
            /\ p \in Stored(r.m) /\ q \notin Stored(r.m)
    IN  replaced(insert(m, p))

RemovesNothing(m, p) ==
    LET absent(r) ==
            /\ Returns(r)
            /\ r.ret = None
            /\ r.m.items = m.items
            /\ r.m.table = m.table
    IN  absent(remove(m, p))

\* C7: remove(p) of a point that is not stored, also on a map nothing was
\* ever inserted into, returns absent without failing and leaves items() and
\* the table contents unchanged.
C7_RemoveAbsent ==
    status = "ok" => \A p \in Points \ Stored(map) : RemovesNothing(map, p)

\* remove(p) returns p and counts one item less; afterwards get finds no
\* point at p's coordinates and still finds every other stored point
RemovesStored(m, p) ==
    LET removed(r) ==
            /\ Returns(r)
            /\ r.ret = Some(p)
            /\ r.m.items = m.items - 1
            /\ get(r.m, <<p.x, p.y>>).ok /\ get(r.m, <<p.x, p.y>>).ret = None
            /\ \A q \in Stored(m) \ {p} : GetFinds(r.m, q)
    IN  removed(remove(m, p))

\* C8: remove(p) of a stored point returns p and decrements items() by one;
\* afterwards get(p.x, p.y) is absent and every other stored point is still
\* returned by get.  Stated on the maps whose counter is true, so that the
\* counter's own faults (C2, C7) do not decide it.
C8_RemoveStored ==
    status = "ok" /\ map.items = NStored =>
        \A p \in Stored(map) : RemovesStored(map, p)

\* the batches whose fit fails: no point, or one value on the chosen axis
FitFails(ps) ==
    \/ ps = <<>>
    \/ \A i \in DOMAIN ps : with_points(ps).train_x[i] = with_points(ps).train_x[1]

\* batch_insert(ps) returns the fit error and leaves the map as it was
ReturnsFitError(m, ps) ==
    LET refused(r) ==
            /\ Returns(r)
            /\ r.ret = "Err"
            /\ r.m.table = m.table
            /\ r.m.items = m.items
            /\ r.m.hasher.model = m.hasher.model
            /\ r.m.hasher.sort_by_x = m.hasher.sort_by_x
    IN  refused(batch_insert(m, ps))

\* C9: batch_insert of a batch whose fit fails (an empty batch, or a batch
\* whose chosen-axis coordinates are all equal) returns a fit error, and the
\* table contents, item count, model and axis flag are as before the call.
C9_BatchInsertFitError ==
    status = "ok" =>
        \A ps \in Batches : FitFails(ps) => ReturnsFitError(map, ps)

\* nearest_neighbor(q) returns; a point it returns is stored, and on a map
\* without points it returns no point
NearestIsStored(m, q) ==
    LET stored(r) ==
            /\ Returns(r)
            /\ r.ret \subseteq Stored(m)
    IN  stored(nearest_neighbor(m, q))

\* C10: a point nearest_neighbor returns is stored in the map; on a map that
\* holds no points (never filled, or emptied by remove) it returns absent.
C10_NearestNeighborStored ==
    status = "ok" => \A q \in QueryArgs : NearestIsStored(map, q)

\* get(q) returns; a point it returns is stored and has the coordinates q,
\* and it returns absent when no stored point has them
GetIsExact(m, q) ==
    LET exact(r) ==
            /\ Returns(r)
            /\ r.ret # None =>
                   r.ret[1] \in Stored(m) /\ r.ret[1].x = q[1] /\ r.ret[1].y = q[2]
            /\ q \notin CoordsOf(StoredSeq(m)) => r.ret = None
    IN  exact(get(m, q))

\* C11: get(x, y) returns a point only if a stored point has exactly that x
\* and that y; for every coordinate pair that matches no stored point, one
\* whose hash is at or beyond the table capacity included, it returns absent.
C11_GetIsExact ==
    status = "ok" => \A q \in QueryCoords : GetIsExact(map, q)

\* the points of ps inserted one at a time, from the i-th on
RECURSIVE InsertEach(_, _, _)
InsertEach(m, ps, i) ==
    IF i > Len(ps) THEN [ok |-> TRUE, wrapped |-> FALSE, m |-> m]
    ELSE LET next(r) ==
                 IF ~r.ok THEN [ok |-> FALSE, wrapped |-> FALSE, m |-> m]
                 ELSE [InsertEach(r.m, ps, i + 1) EXCEPT !.wrapped = @ \/ r.wrapped]
         IN  next(insert(m, ps[i]))

\* both ways of filling the new map m with ps return, and they store the
\* same set of coordinates: those of ps
SameContents(m, ps) ==
    LET same(one_by_one, batch) ==
            /\ Returns(one_by_one) /\ Returns(batch)
            /\ CoordsOf(StoredSeq(one_by_one.m)) = CoordsOf(StoredSeq(batch.m))
            /\ CoordsOf(StoredSeq(batch.m)) = CoordsOf(ps)
    IN  same(InsertEach(m, ps, 1), batch_insert(m, ps))

\* the batches the regression can be fitted on: two different coordinate pairs
HasSlope(ps) == Cardinality(CoordsOf(ps)) >= 2

C13_BucketsNeverDecrease ==
    [][status' = "ok" => Len(map'.table.buckets) >= Len(map.table.buckets)]_vars

\* the trainer's sequences for the batch ps are parallel: train_x[i] is the
\* chosen-axis coordinate of the point whose reassigned id is train_y[i]
TrainingIsParallel(ps) ==
    LET parallel(t) ==
            /\ Len(t.train_x) = Len(ps) /\ Len(t.train_y) = Len(ps)
            /\ \A i \in DOMAIN t.train_y :
                  \E k \in DOMAIN t.ps :
                      /\ Int2F(t.ps[k].id) = t.train_y[i]
                      /\ Int2F(AxisValue(t.ps[k], t.axis = "X")) = t.train_x[i]
    IN  parallel(with_points(ps))

\* C14: the Trainer's two output sequences are parallel: for every index i,
\* train_x[i] is the chosen-axis coordinate of the point whose rank
\* (reassigned id) is train_y[i].
C14_TrainingIsParallel ==
    status = "ok" => \A ps \in Batches : TrainingIsParallel(ps)

\* the chosen-axis coordinates of the batch ps
AxisValues(ps, by_x) == {AxisValue(ps[i], by_x) : i \in DOMAIN ps}

\* the hash of hasher does not decrease over the coordinates from lo to hi
HashIsMonotonic(hasher, lo, hi) ==
    /\ \A a \in lo..hi : \A b \in a..hi : make_hash(hasher, a) <= make_hash(hasher, b)
    /\ ~RLess(hasher.model.coefficient, Int2F(0))

\* when batch_insert(ps) returns, the fitted hash does not decrease over the
\* range of the batch's chosen-axis coordinates
FitIsMonotonic(m, ps) ==
    LET over(hasher, values) ==
            HashIsMonotonic(hasher,
                            CHOOSE a \in values : \A v \in values : a <= v,
                            CHOOSE b \in values : \A v \in values : v <= b)
        fitted(r) ==
            Returns(r) => over(r.m.hasher, AxisValues(ps, r.m.hasher.sort_by_x))
    IN  fitted(batch_insert(m, ps))

\* C15: after a batch_insert that returns, the fitted hash is non-decreasing
\* in the chosen-axis coordinate: hash(a) <= hash(b) for any two coordinates
\* a <= b within the range of the batch (the coefficient is not negative),
\* whatever the order of the points in the batch.
C15_FitIsMonotonic ==
    status = "ok" /\ Bounded =>
        \A ps \in BatchesUpTo[MaxStored - NStored] : FitIsMonotonic(map, ps)

RECURSIVE SumInt(_)
SumInt(s) == IF s = <<>> THEN 0 ELSE Head(s) + SumInt(Tail(s))

\* n * n times the population variance of the integers of s
ScaledVariance(s) ==
    Len(s) * SumInt([i \in DOMAIN s |-> s[i] * s[i]]) - SumInt(s) * SumInt(s)

\* the x coordinates of ps vary strictly more than its y coordinates
XVariesMore(ps) ==
    ScaledVariance([i \in DOMAIN ps |-> ps[i].x])
        > ScaledVariance([i \in DOMAIN ps |-> ps[i].y])

\* the trainer picks the x axis exactly when x varies strictly more, and a
\* batch_insert that returns leaves the hasher's flag on the picked axis
AxisIsChosen(m, ps) ==
    LET flagged(t, r) ==
            /\ t.axis \in {"X", "Y"}
            /\ t.axis = "X" <=> XVariesMore(ps)
            /\ Returns(r) => (r.m.hasher.sort_by_x <=> t.axis = "X")
    IN  flagged(with_points(ps), batch_insert(m, ps))

\* C16: the Trainer selects the x axis exactly when the population variance
\* of the batch's x coordinates is strictly greater than that of its y
\* coordinates, and the y axis otherwise (ties included); batch_insert sets
\* the hasher's sort_by_x flag to match the selected axis.
C16_AxisIsChosen ==
    status = "ok" /\ Bounded =>
        \A ps \in BatchesUpTo[MaxStored - NStored] : AxisIsChosen(map, ps)

\* C16's case: a filled map on the y axis takes a batch whose x varies more
\* and turns to the x axis, and takes a batch of equal, non-zero variances
\* and stays on the y axis
C16_Witness ==
    /\ status = "ok" /\ Bounded
    /\ ~map.hasher.sort_by_x /\ NStored > 0
    /\ \E ps \in BatchesUpTo[MaxStored - NStored] :
          /\ XVariesMore(ps)
          /\ Returns(batch_insert(map, ps))
          /\ batch_insert(map, ps).m.hasher.sort_by_x
          /\ AxisIsChosen(map, ps)
    /\ \E ps \in BatchesUpTo[MaxStored - NStored] :
          /\ variance(extract_x(ps)) = variance(extract_y(ps))
          /\ variance(extract_x(ps)) # Int2F(0)
          /\ Returns(batch_insert(map, ps))
          /\ ~batch_insert(map, ps).m.hasher.sort_by_x
          /\ AxisIsChosen(map, ps)

\* the number of points of ps at the coordinates c
CountAt(ps, c) == Cardinality({i \in DOMAIN ps : <<ps[i].x, ps[i].y>> = c})

\* out is ps in ascending order of the axis coordinate, with the same
\* coordinate pairs as often, and 0-based positions as ids
SortedAndRanked(ps, out, by_x) ==
    /\ Len(out) = Len(ps)
    /\ \A i \in DOMAIN out : \A k \in DOMAIN out :
          i <= k => AxisValue(out[i], by_x) <= AxisValue(out[k], by_x)
    /\ \A c \in CoordsOf(ps) \cup CoordsOf(out) : CountAt(out, c) = CountAt(ps, c)
    /\ \A i \in DOMAIN out : out[i].id = i - 1

\* the batch as Trainer::with_points leaves it, and as a batch_insert that
\* returns leaves it
BatchIsSorted(m, ps) ==
    LET left(t, r) ==
            /\ SortedAndRanked(ps, t.ps, t.axis = "X")
            /\ Returns(r) => SortedAndRanked(ps, r.ps, r.m.hasher.sort_by_x)
    IN  left(with_points(ps), batch_insert(m, ps))

\* C17: after batch_insert (or Trainer::with_points) on a batch of n points,
\* the caller's batch is in ascending order of the chosen-axis coordinate,
\* holds the same multiset of (x, y) pairs as before, and the id of the point
\* at position i is i for every i in 0..n-1.
C17_BatchIsSorted ==
    status = "ok" /\ Bounded =>
        \A ps \in BatchesUpTo[MaxStored - NStored] : BatchIsSorted(map, ps)

\* C17's case: a batch of MaxBatch points in descending order with a
\* repeated coordinate pair, which batch_insert reorders and returns
C17_Witness ==
    /\ status = "ok" /\ Bounded
    /\ \E ps \in BatchesUpTo[MaxStored - NStored] :
          /\ Len(ps) = MaxBatch
          /\ ps[2] = ps[3] /\ ps[1].x > ps[2].x
          /\ with_points(ps).axis = "X"
          /\ Returns(batch_insert(map, ps))
          /\ batch_insert(map, ps).ps # reset_id(ps)
          /\ BatchIsSorted(map, ps)

Radii == 0..MaxX

\* radius_range(q, radius) comes out as range_search does on the box from
\* (q.x - radius, q.y - radius) to (q.x + radius, q.y + radius): the same
\* result, the same map, or a panic in both
RadiusIsBox(m, q, radius) ==
    LET same(r, b) == r.ok = b.ok /\ r.wrapped = b.wrapped /\ r.ret = b.ret /\ r.m = b.m
    IN  same(radius_range(m, q, radius),
             range_search(m, <<q[1] - radius, q[2] - radius>>,
                             <<q[1] + radius, q[2] + radius>>))

\* C18: radius_range(center, r) returns exactly what
\* range_search((center.x - r, center.y - r), (center.x + r, center.y + r))
\* returns in the same map state, with no filtering by Euclidean distance.
C18_RadiusIsBox ==
    status = "ok" => \A q \in Coords : \A radius \in Radii : RadiusIsBox(map, q, radius)

\* C18's case: radius_range returns a point of the box that lies farther
\* from the centre than the radius
C18_Witness ==
    /\ status = "ok"
    /\ \E q \in Coords : \E radius \in Radii :
          /\ Returns(radius_range(map, q, radius))
          /\ radius_range(map, q, radius).ret # None
          /\ \E p \in Range(radius_range(map, q, radius).ret[1]) :
                distance2(q, <<p.x, p.y>>) > radius * radius
          /\ RadiusIsBox(map, q, radius)

\* each of the five statistics returns zero on empty sequences
StatsAreZero(xs, ys) ==
    LET zero == [ok |-> TRUE, v |-> Int2F(0)]
    IN  /\ mean(xs) = Int2F(0)
        /\ variance(xs) = Int2F(0)
        /\ covariance(xs, ys) = zero
        /\ mean_squared_error(xs, ys) = zero
        /\ root_mean_squared_error(xs, ys) = zero

\* C19: mean, variance, covariance, mean_squared_error and
\* root_mean_squared_error each return zero, without failing, when called on
\* empty input sequences (here: the coordinates of a map that stores nothing).
C19_StatsOfEmptyAreZero ==
    status = "ok" /\ StoredSeq(map) = <<>> =>
        StatsAreZero(extract_x(StoredSeq(map)), extract_y(StoredSeq(map)))

\* every point of bucket k of m hashes, with the model and the axis flag m
\* has now, to k modulo the number of buckets
InHashedBucket(m) ==
    \A k \in DOMAIN m.table.buckets :
        \A i \in DOMAIN m.table.buckets[k] :
            HashOf(m, m.table.buckets[k][i]) % Len(m.table.buckets) = k - 1

\* C20: in every reachable state, every stored point p lies in the bucket
\* with index hash(p) mod (number of buckets), the hash computed with the
\* hasher's current model and axis flag.
C20_InHashedBucket == status = "ok" => InHashedBucket(map)

\* C20's case: a table of several buckets whose model was fitted by a batch,
\* after an insert or a remove that followed the batch, with a stored point
\* outside bucket 0
C20_Witness ==
    /\ status = "ok" /\ InHashedBucket(map)
    /\ Len(map.table.buckets) >= 2
    /\ map.hasher.model # LinearModelNew
    /\ Len(map.table.buckets) # NStored
    /\ \E p \in Stored(map) : HashOf(map, p) % Len(map.table.buckets) >= 1

\* the points of every bucket of m are in ascending order of the coordinate
\* on the axis the hasher is set to
BucketsAreSorted(m) ==
    \A k \in DOMAIN m.table.buckets :
        \A i \in DOMAIN m.table.buckets[k] : \A j \in DOMAIN m.table.buckets[k] :
            i <= j => AxisValue(m.table.buckets[k][i], m.hasher.sort_by_x)
                          <= AxisValue(m.table.buckets[k][j], m.hasher.sort_by_x)

\* C21: in every reachable state, after any sequence of insert, batch_insert
\* and remove, the points of every bucket are in ascending order of the
\* active-axis coordinate.
C21_BucketsAreSorted == status = "ok" => BucketsAreSorted(map)

\* the bucket nearest_neighbor(q) starts from: the hash of q, clamped to the
\* last bucket when it is above the capacity
HomeBucket(m, q) ==
    LET clamped(h0) == IF h0 > m.table.capacity THEN m.table.capacity - 1 ELSE h0
    IN  clamped(make_hash_point(m.hasher, q))

\* the single-axis distance from q to bucket h is at most the distance from
\* q to every point of the buckets from..to (distances squared)
IsLowerBound(m, q, h, from, to) ==
    LET below(hd) ==
            \A k \in from..to : \A i \in DOMAIN m.table.buckets[k + 1] :
                LET d == Int2F(distance2(q, <<m.table.buckets[k + 1][i].x,
                                              m.table.buckets[k + 1][i].y>>))
                IN  hd = d \/ RLess(hd, d)
    IN  below(horizontal_distance(m, q, h))

\* the distances nearest_neighbor(q) computes first on either side of the
\* home bucket are lower bounds for that bucket and the buckets beyond it
FirstCandidatesAreLowerBounds(m, q) ==
    LET last == Len(m.table.buckets) - 1
        sides(home) ==
            home <= last =>
                /\ home >= 1 => IsLowerBound(m, q, home - 1, 0, home - 1)
                /\ home + 1 <= last => IsLowerBound(m, q, home + 1, home + 1, last)
    IN  sides(HomeBucket(m, q))

QueriesStayInRange(m) ==
    /\ \A q \in QueryCoords : get(m, q).ok
    /\ \A q \in QueryCoords : nearest_neighbor(m, q).ok
    /\ \A b \in QueryCoords : \A t \in QueryCoords : range_search(m, b, t).ok

\* C23: no operation reads or writes a bucket index outside
\* 0..(number of buckets - 1), for any argument and any reachable map,
\* the empty map included (stated here for the three queries).
C23_IndexesInRange == status = "ok" => QueriesStayInRange(map)

\* insert(p) takes its growth branch: after the resize at its head, the hash
\* of p is at or beyond the capacity
InsertGrows(m, p) ==
    LET beyond(r) == r.ok /\ HashOf(r.m, p) >= r.m.table.capacity
    IN  beyond(ResizeIfNeeded(m))

\* after the growth branch the capacity is above the hash of p under the
\* model the map then has, and the coordinates stored are those stored
\* before, as often, and those of p
GrownHoldsAll(m, p) ==
    LET c == <<p.x, p.y>>
        holds(before, after, r) ==
            /\ r.m.table.capacity > HashOf(r.m, p)
            /\ Len(r.m.table.buckets) > HashOf(r.m, p)
            /\ \A d \in CoordsOf(before) \ {c} : CountAt(after, d) = CountAt(before, d)
            /\ CoordsOf(after) = CoordsOf(before) \cup {c}
            /\ CountAt(after, c) = IF p \in Range(before) THEN CountAt(before, c)
                                   ELSE CountAt(before, c) + 1
        grown(r) == Returns(r) => holds(StoredSeq(m), StoredSeq(r.m), r)
    IN  InsertGrows(m, p) => grown(insert(m, p))

KeepsModel(m, r) ==
    /\ r.m.hasher.model = m.hasher.model
    /\ r.m.hasher.sort_by_x = m.hasher.sort_by_x

\* C25: a single insert never changes the hasher's model parameters
\* (coefficient, intercept) or its axis flag sort_by_x; these change only in
\* batch_insert.
C25_InsertKeepsModel ==
    status = "ok" /\ Bounded =>
        \A p \in Points : Returns(insert(map, p)) => KeepsModel(map, insert(map, p))

\* C25, amended: an insert whose hash is below the capacity never changes the
\* model parameters or the axis flag; an insert whose hash is at or beyond
\* the capacity rehashes, and the rehash fits the model anew and chooses the
\* axis anew through batch_insert.
C25_PlainInsertKeepsModel ==
    status = "ok" /\ Bounded =>
        \A p \in Points :
            Returns(insert(map, p)) /\ ~InsertGrows(map, p)
                => KeepsModel(map, insert(map, p))

\* a fitted map on which one insert stays below the capacity and returns, and
\* another grows the table and returns with other model parameters
C25_Witness ==
    /\ status = "ok" /\ Bounded /\ map.hasher.model.coefficient # Int2F(0)
    /\ \E p \in Points : Returns(insert(map, p)) /\ ~InsertGrows(map, p)
    /\ \E p \in Points : /\ Returns(insert(map, p)) /\ InsertGrows(map, p)
                         /\ insert(map, p).m.hasher.model # map.hasher.model

\* how often the bucket index k occurs among the visited indexes
TimesVisited(visited, k) == Cardinality({i \in DOMAIN visited : visited[i] = k})

\* the search for q ends without a panic, indexes no bucket past the last one,
\* and visits no bucket more than twice (the home bucket 0 is also the first
\* bucket of the left expansion)
SearchIsBounded(m, q) ==
    LET bounded(r) ==
            /\ r.ok
            /\ \A i \in DOMAIN r.visited : r.visited[i] < Len(m.table.buckets)
            /\ \A i \in DOMAIN r.visited : TimesVisited(r.visited, r.visited[i]) <= 2
    IN  bounded(nearest_neighbor(m, q))

\* C26: nearest_neighbor terminates for every query and every reachable map:
\* the left expansion stops no later than bucket 0 and the right expansion no
\* later than the last bucket, each bucket index being visited a bounded
\* number of times.
C26_SearchIsBounded ==
    status = "ok" => \A q \in QueryCoords : SearchIsBounded(map, q)

\* how often the point p (id, x, y) occurs in the sequence ps
TimesStored(ps, p) == Cardinality({i \in DOMAIN ps : ps[i] = p})

\* the step at the head of insert: one bucket for a table without buckets,
\* twice the buckets when items() is above three quarters of them, the same
\* buckets otherwise; every stored point is stored as often as before
HeadOfInsertResizes(m) ==
    LET n == Len(m.table.buckets)
        same_points(r) ==
            \A p \in Stored(m) \cup Stored(r.m) :
                TimesStored(StoredSeq(r.m), p) = TimesStored(StoredSeq(m), p)
        resized(r) ==
            /\ r.ok
            /\ Len(r.m.table.buckets) =
                   IF n = 0 THEN 1
                   ELSE IF m.items > (3 * n) \div 4 THEN 2 * n
                   ELSE n
            /\ same_points(r)
    IN  resized(ResizeIfNeeded(m))

RangeIsAscending(m, b, t) ==
    LET ascending(ps) ==
            \A i \in DOMAIN ps : \A j \in DOMAIN ps :
                i <= j => AxisValue(ps[i], m.hasher.sort_by_x)
                              <= AxisValue(ps[j], m.hasher.sort_by_x)
        ordered(r) == Returns(r) /\ r.ret # None => ascending(r.ret[1])
    IN  ordered(range_search(m, b, t))

OnlyStateChanged(m, r) ==
    r.ok => [r.m EXCEPT !.hasher.state = m.hasher.state] = m

QueriesKeepMap(m) ==
    /\ \A q \in BoxCorners : OnlyStateChanged(m, get(m, q))
    /\ \A q \in BoxCorners : OnlyStateChanged(m, contains_points(m, q))
    /\ \A q \in BoxCorners : OnlyStateChanged(m, nearest_neighbor(m, q))
    /\ \A b \in BoxCorners : \A t \in BoxCorners :
           OnlyStateChanged(m, range_search(m, b, t))
    /\ \A q \in QueryArgs : \A radius \in Radii :
           OnlyStateChanged(m, radius_range(m, q, radius))

\* C29: get, find_by_hash, contains_points, range_search, radius_range and
\* nearest_neighbor leave the table contents, the bucket count, items(), the
\* model parameters and the axis flag unchanged; only the hash the hasher
\* remembers may change.
C29_QueriesKeepMap == status = "ok" => QueriesKeepMap(map)

\* on a filled map, queries that find points and leave another hash in the
\* hasher than the one it remembered
C29_Witness ==
    /\ Filled /\ NStored >= 2
    /\ \E q \in QueryCoords :
           /\ contains_points(map, q).ok /\ contains_points(map, q).ret
           /\ contains_points(map, q).m.hasher.state # map.hasher.state
    /\ \E q \in QueryCoords :
           /\ nearest_neighbor(map, q).ok
           /\ nearest_neighbor(map, q).m.hasher.state # map.hasher.state
    /\ \E b \in QueryCoords : \E t \in QueryCoords :
           /\ range_search(map, b, t).ok /\ range_search(map, b, t).ret # None
           /\ range_search(map, b, t).m.hasher.state # map.hasher.state

\* the items of n successive calls of Iter::next
RECURSIVE IterTake(_, _, _)
IterTake(m, it, n) ==
    IF n = 0 THEN <<>>
    ELSE LET rest(r) == <<r.item>> \o IterTake(m, r.it, n - 1)
         IN  rest(Iter_next(m, it))

\* the items of n successive calls of IntoIter::next
RECURSIVE IntoIterTake(_, _)
IntoIterTake(it, n) ==
    IF n = 0 THEN <<>>
    ELSE LET rest(r) == <<r.item>> \o IntoIterTake(r.it, n - 1)
         IN  rest(IntoIter_next(it))

Reverse(s) == [i \in DOMAIN s |-> s[Len(s) + 1 - i]]

\* the first calls of next yield the points of expected in turn, the two
\* calls after them yield None
YieldsThenEnds(items, expected) ==
    /\ Len(items) = Len(expected) + 2
    /\ \A i \in DOMAIN expected : items[i] = Some(expected[i])
    /\ items[Len(expected) + 1] = None
    /\ items[Len(expected) + 2] = None

\* Iter yields the buckets in ascending order, each from its first point to
\* its last; IntoIter yields the buckets in ascending order, each from its
\* last point to its first
IterationIsComplete(m) ==
    /\ YieldsThenEnds(IterTake(m, Iter(m), Len(StoredSeq(m)) + 2), StoredSeq(m))
    /\ YieldsThenEnds(IntoIterTake(IntoIter(m), Len(StoredSeq(m)) + 2),
                      Flatten([k \in DOMAIN m.table.buckets |->
                                  Reverse(m.table.buckets[k])]))

\* C30: iterating a map (by reference with Iter, or by value with IntoIter)
\* yields every stored point exactly once and then ends, visiting the buckets
\* in ascending index order, for every reachable map, maps with empty buckets
\* included.
C30_IterationIsComplete == status = "ok" => IterationIsComplete(map)

\* a map with an empty bucket before a bucket of several points, all of
\* which both iterators yield
C30_Witness ==
    /\ status = "ok"
    /\ \E k \in DOMAIN map.table.buckets :
           /\ Len(map.table.buckets[k]) >= 2
           /\ \E j \in 1..(k - 1) : map.table.buckets[j] = <<>>
           /\ \E j \in DOMAIN map.table.buckets : j # k /\ map.table.buckets[j] # <<>>
    /\ IterationIsComplete(map)

====
